---------------------------- MODULE Spec2Model ----------------------------
(***************************************************************************)
(* Model of the credential-issuance subsystem (utils/oauth_auth.py,        *)
(* scripts/oauth_authenticate.py) and of the API-key gateway middleware    *)
(* (utils/asgi_auth.py).                                                   *)
(*                                                                         *)
(* The specifications share the variables:                                 *)
(*   SpecClient  any sequence of DidaOAuthClient method calls, the token   *)
(*               endpoint answering nondeterministically;                  *)
(*   SpecFlow    authorize(): the callback listener thread, the browser    *)
(*               requests in flight, the waiting caller, the exchange;     *)
(*   SpecGW      ApiKeyAuthMiddleware.__call__ on one request at a time;   *)
(*   SpecMcp     http_server.py: POST /mcp behind verify_api_key;          *)
(*   SpecEnv     write_env_tokens applied to an arbitrary .env, twice;     *)
(*   SpecLoad    load_tokens applied to an arbitrary oauth_config.json;    *)
(*   SpecUrl     get_authorization_url and the parsing of its result.      *)
(*                                                                         *)
(* Python values: None is the string "None", the empty string is "",       *)
(* True/False/raised results are the strings "True", "False", "Raised".    *)
(***************************************************************************)
EXTENDS Integers, Sequences, FiniteSets, TLC

VARIABLES
    access_token,        \* DidaOAuthClient.access_token
    refresh_token,       \* DidaOAuthClient.refresh_token
    config_file,         \* oauth_config.json: absent, or the saved record
    env_file,            \* .env: absent, or its content (sequence of atoms)
    http_calls,          \* number of POSTs sent to TOKEN_URL so far
    last,                \* the last client call: operation, input, pre-state, result
    issued,              \* access tokens received non-empty in a 2xx token response
    used,                \* values placed in an Authorization header so far
    nops,                \* number of client calls made (bounded)
    authorization_code,  \* OAuthCallbackHandler.authorization_code (class attribute)
    servers,             \* per authorize() call: its listener thread, socket, results
    reqs,                \* browser requests sent so far, with their responses
    pc,                  \* position of the caller inside authorize()/main()
    exchanged,           \* the (flow, code) pairs sent to the token endpoint
    nhandled,            \* number of requests handled by any listener so far
    gw_cfg,              \* ApiKeyAuthMiddleware configuration
    gw_scope,            \* the ASGI scope of the request being handled
    gw_out,              \* what the middleware did with it
    fn,                  \* the function a single call is made to (other specifications)
    fn_in,               \* the arguments of that call
    fn_out               \* its results so far

clientVars == <<access_token, refresh_token, config_file, env_file, http_calls,
                last, issued, used, nops>>
flowVars   == <<authorization_code, servers, reqs, pc, exchanged, nhandled>>
gwVars     == <<gw_cfg, gw_scope, gw_out>>
fnVars     == <<fn, fn_in, fn_out>>
vars       == <<clientVars, flowVars, gwVars, fnVars>>

-----------------------------------------------------------------------------
(* Bounds *)
MaxOps      == 3     \* client method calls in one behaviour of SpecClient
MaxRequests == 2     \* browser requests in one behaviour of SpecFlow
MaxFlows    == 2     \* serialized authorize() calls in one behaviour of SpecFlow
MaxPathLen  == 2     \* atoms in a request path (SpecGW)
MaxHeaders  == 2     \* headers of a request (SpecGW)

-----------------------------------------------------------------------------
(* Python values *)
None  == "None"
Empty == ""

\* Python truthiness of an Optional[str]
Truthy(v) == v # None /\ v # Empty

\* x or y
PyOr(x, y) == IF Truthy(x) THEN x ELSE y

AccessTokens  == {"at1", "at2"}
RefreshTokens == {"rt1", "rt2"}
AltRefresh    == {"rt3"}
Codes         == {"c1", "c2"}

-----------------------------------------------------------------------------
(* The token endpoint's answers to requests.post(TOKEN_URL, ...)           *)
(*   status: "2xx", "non2xx", or "transport" (post itself raises)          *)
(*   body:   "dict" (a JSON object), "list" (valid JSON, not an object),   *)
(*           "garbage" (not JSON)                                          *)
(*   access_token / refresh_token / refreshToken: the object's fields,     *)
(*           None when the key is absent                                   *)
NoBody(s, b) == [status |-> s, body |-> b, access_token |-> None,
                 refresh_token |-> None, refreshToken |-> None]

Responses ==
    [status : {"2xx"}, body : {"dict"},
     access_token  : {None, Empty} \cup AccessTokens,
     refresh_token : {None, Empty} \cup RefreshTokens,
     refreshToken  : {None} \cup AltRefresh]
    \cup {NoBody("2xx", "list"), NoBody("2xx", "garbage"),
          NoBody("non2xx", "dict"), NoBody("non2xx", "garbage"),
          NoBody("transport", "garbage")}

\* The exception raised inside the try block of exchange_token /
\* refresh_access_token, "none" if the block reaches the assignments:
\* requests.post, raise_for_status, response.json, token_data.keys()/.get
TryException(resp) ==
    IF resp.status = "transport" THEN "ConnectionError"
    ELSE IF resp.status = "non2xx" THEN "HTTPError"
    ELSE IF resp.body = "garbage" THEN "JSONDecodeError"
    ELSE IF resp.body = "list" THEN "AttributeError"
    ELSE "none"

\* Exception classes (all of these derive from Exception)
ExceptionSubclasses == {"HTTPError", "ConnectionError", "JSONDecodeError",
                        "AttributeError", "ValueError", "OSError"}

Catches(clause, exc) ==
    \/ clause = exc
    \/ clause = "Exception" /\ exc \in ExceptionSubclasses

\* except clauses of exchange_token: HTTPError, then Exception
ExchangeExceptOnlyHTTP == {"HTTPError"}
ExchangeExcept == {"HTTPError", "Exception"}

\* except clause of refresh_access_token
RefreshExcept == {"Exception"}

Caught(clauses, exc) == \E c \in clauses : Catches(c, exc)

-----------------------------------------------------------------------------
(* DidaOAuthClient methods as functions of the session fields.  Each gives *)
(* the return value ("True", "False", "Raised"), the new fields and the    *)
(* number of HTTP calls made.                                              *)

Outcome(r, at, rt, n) == [ret |-> r, access_token |-> at, refresh_token |-> rt,
                          http |-> n]

\* self.refresh_token after lines 215-220
ExchangeRefreshField(resp) ==
    IF ~Truthy(resp.refresh_token)
    THEN PyOr(resp.refreshToken, resp.refresh_token)
    ELSE resp.refresh_token

\* lines 214-231: the assignments and the result, body being a JSON object
ExchangeAssign(at, rt, resp) ==
    Outcome(IF Truthy(resp.access_token) THEN "True" ELSE "False",
            resp.access_token, ExchangeRefreshField(resp), 1)

\* mutant: success decided on the refresh token as well
ExchangeTokenNeedsRefresh(at, rt, resp) ==
    LET exc == TryException(resp) IN
    IF exc = "none"
    THEN LET o == ExchangeAssign(at, rt, resp) IN
         IF Truthy(o.refresh_token) THEN o ELSE [o EXCEPT !.ret = "False"]
    ELSE Outcome("False", at, rt, 1)

\* exchange_token(authorization_code), the endpoint answering resp
ExchangeToken(at, rt, resp) ==
    LET exc == TryException(resp) IN
    IF exc = "none" THEN ExchangeAssign(at, rt, resp)
    ELSE IF Caught(ExchangeExcept, exc) THEN Outcome("False", at, rt, 1)
    ELSE Outcome("Raised", at, rt, 1)

\* mutant: the guard on the stored refresh token is missing
RefreshAccessTokenNoGuard(at, rt, resp) ==
    LET exc == TryException(resp) IN
    IF exc = "none"
    THEN Outcome("True", resp.access_token,
                 IF Truthy(resp.refresh_token) THEN resp.refresh_token ELSE rt, 1)
    ELSE Outcome("False", at, rt, 1)

\* mutant: the refresh token is taken from the response whatever it holds
RefreshedRefreshTokenAlways(rt, resp) == resp.refresh_token

\* lines 271-273: the refresh token after a refresh
RefreshedRefreshToken(rt, resp) ==
    IF Truthy(resp.refresh_token) THEN resp.refresh_token ELSE rt

\* refresh_access_token(), the endpoint answering resp (if it is asked)
RefreshAccessToken(at, rt, resp) ==
    IF ~Truthy(rt) THEN Outcome("False", at, rt, 0)
    ELSE LET exc == TryException(resp) IN
         IF exc = "none"
         THEN Outcome("True", resp.access_token, RefreshedRefreshToken(rt, resp), 1)
         ELSE IF Caught(RefreshExcept, exc) THEN Outcome("False", at, rt, 1)
         ELSE Outcome("Raised", at, rt, 1)

\* oauth_config.json: absent, or holding the two token fields
NoFile == [exists |-> FALSE, access_token |-> None, refresh_token |-> None]

\* save_tokens(): the return value and the file afterwards (the write itself
\* is taken to succeed)
SaveTokens(at, rt, file) ==
    IF ~Truthy(at) THEN [ret |-> "False", file |-> file]
    ELSE [ret |-> "True",
          file |-> [exists |-> TRUE, access_token |-> at, refresh_token |-> rt]]

\* mutant: get_headers without its check
GetHeadersUnchecked(at) == [ret |-> "True", Authorization |-> at]

\* get_headers(): raises ValueError without an access token
GetHeaders(at) ==
    IF ~Truthy(at) THEN [ret |-> "Raised", Authorization |-> None]
    ELSE [ret |-> "True", Authorization |-> at]

\* load_tokens() on a file save_tokens wrote (or no file)
LoadTokens(at, rt, file) ==
    IF ~file.exists THEN Outcome("False", at, rt, 0)
    ELSE Outcome(IF Truthy(file.access_token) THEN "True" ELSE "False",
                 file.access_token, file.refresh_token, 0)

-----------------------------------------------------------------------------
(* scripts/oauth_authenticate.py: the .env file.  A file content and a     *)
(* line are sequences of atoms; an atom is a line break "\n", a key prefix *)
(* such as "DIDA_ACCESS_TOKEN=", or another run of characters.  "\r\n" is  *)
(* an atom of its own, and "\f" stands for the characters other than       *)
(* "\n", "\r" that str.splitlines takes as line boundaries (\v, \f, \x1c,   *)
(* \x1d, \x1e, \x85, \u2028, \u2029).                                     *)
NL         == "\n"
CRLF       == "\r\n"
FF         == "\f"
AccessKey  == "DIDA_ACCESS_TOKEN="
RefreshKey == "DIDA_REFRESH_TOKEN="

\* the atoms of a string value: none for the empty string
Atoms(v) == IF v = Empty THEN <<>> ELSE <<v>>

\* f.read() of a file opened in text mode: "\r\n" is read as "\n"
ReadText(content) ==
    [i \in 1..Len(content) |-> IF content[i] = CRLF THEN NL ELSE content[i]]

\* the line boundaries of str.splitlines
LineBoundaries == {NL, CRLF, FF}

RECURSIVE SplitFrom(_, _, _, _)
\* the lines of content, ended by the atoms in seps, without their ends: cur
\* is the line being read, i the next position; no line after the last end
SplitFrom(content, seps, i, cur) ==
    IF i > Len(content)
    THEN (IF cur = <<>> THEN <<>> ELSE <<cur>>)
    ELSE IF content[i] \in seps
         THEN <<cur>> \o SplitFrom(content, seps, i + 1, <<>>)
         ELSE SplitFrom(content, seps, i + 1, Append(cur, content[i]))

\* mutant: a content that ends with a line boundary has an empty last line,
\* as with str.split
SplitlinesKeepsLast(content) ==
    SplitFrom(content, LineBoundaries, 1, <<>>) \o
    (IF content # <<>> /\ content[Len(content)] \in LineBoundaries
     THEN << <<>> >> ELSE <<>>)

\* str.splitlines()
Splitlines(content) == SplitFrom(content, LineBoundaries, 1, <<>>)

RECURSIVE Join(_)
\* "\n".join(lines)
Join(lines) ==
    IF lines = <<>> THEN <<>>
    ELSE IF Len(lines) = 1 THEN lines[1]
    ELSE lines[1] \o <<NL>> \o Join(Tail(lines))

\* ln.startswith(f"{key}=")
LineStartsWith(ln, key) == Len(ln) >= 1 /\ ln[1] = key

\* mutant: the new line is appended, the old lines stay
UpsertKeepsOld(lines, key, value) ==
    IF value = None THEN lines ELSE Append(lines, <<key>> \o Atoms(value))

\* upsert(key, value)
Upsert(lines, key, value) ==
    LET kept == SelectSeq(lines, LAMBDA ln : ~LineStartsWith(ln, key)) IN
    IF value = None THEN kept ELSE Append(kept, <<key>> \o Atoms(value))

content_endswith_newline(lines) ==
    IF lines = <<>> THEN FALSE
    ELSE LET l == lines[Len(lines)] IN Len(l) >= 1 /\ l[Len(l)] = NL

\* .env: absent, or its content
NoEnv == [exists |-> FALSE, content |-> <<>>]
EnvFile(content) == [exists |-> TRUE, content |-> content]

\* write_env_tokens(env_path, access_token, refresh_token): the new content
write_env_tokens(file, at, rt) ==
    LET lines0 == IF ~file.exists THEN <<>>
                  ELSE Splitlines(ReadText(file.content))
        lines1 == Upsert(lines0, AccessKey, at)
        lines2 == Upsert(lines1, RefreshKey, PyOr(rt, Empty))
    IN  EnvFile(Join(lines2) \o
                (IF ~content_endswith_newline(lines2) THEN <<NL>> ELSE <<>>))

\* the values an .env content holds for a key
EnvValues(file, key) ==
    IF ~file.exists THEN {}
    ELSE LET ls == Splitlines(ReadText(file.content)) IN
         {IF Len(ls[i]) = 1 THEN Empty ELSE ls[i][2] :
             i \in {j \in 1..Len(ls) : LineStartsWith(ls[j], key)}}

\* .env before the setup script ran: absent, or the application's settings
InitialEnvFiles == {NoEnv, EnvFile(<<"DIDA_CLIENT_ID=app", NL>>)}

-----------------------------------------------------------------------------
(* SpecClient: a client object after construction, then any sequence of    *)
(* its methods; authorize() is called with the value its listener returns. *)

NoCall == [op |-> "none", ret |-> "None", resp |-> NoBody("transport", "garbage"),
           code |-> None, pre_access |-> None, pre_refresh |-> None, http |-> 0]

Call(op, o, resp, code) ==
    [op |-> op, ret |-> o.ret, resp |-> resp, code |-> code,
     pre_access |-> access_token, pre_refresh |-> refresh_token, http |-> o.http]

\* access tokens a 2xx JSON-object response delivers
Delivered(resp, o) ==
    IF o.http = 1 /\ TryException(resp) = "none" /\ Truthy(resp.access_token)
    THEN {resp.access_token} ELSE {}

FlowIdle ==
    /\ authorization_code = None
    /\ servers = <<>>
    /\ reqs = <<>>
    /\ pc = "idle"
    /\ exchanged = {}
    /\ nhandled = 0

GWIdle ==
    /\ gw_cfg = <<>>
    /\ gw_scope = <<>>
    /\ gw_out = <<>>

FnIdle ==
    /\ fn = "none"
    /\ fn_in = <<>>
    /\ fn_out = <<>>

ClientFresh ==
    /\ access_token = None
    /\ refresh_token = None
    /\ config_file = NoFile
    /\ env_file \in InitialEnvFiles
    /\ http_calls = 0
    /\ last = NoCall
    /\ issued = {}
    /\ used = {}
    /\ nops = 0

InitClient == ClientFresh /\ FlowIdle /\ GWIdle /\ FnIdle

\* o applied to the session; what every client call has in common
Apply(op, o, resp, code) ==
    /\ nops < MaxOps
    /\ nops' = nops + 1
    /\ access_token' = o.access_token
    /\ refresh_token' = o.refresh_token
    /\ http_calls' = http_calls + o.http
    /\ issued' = issued \cup Delivered(resp, o)
    /\ last' = Call(op, o, resp, code)
    /\ UNCHANGED <<flowVars, gwVars, fnVars>>

CallExchangeToken ==
    \E resp \in Responses, code \in Codes :
        /\ Apply("exchange_token", ExchangeToken(access_token, refresh_token, resp),
                 resp, code)
        /\ UNCHANGED <<config_file, env_file, used>>

CallRefreshAccessToken ==
    \E resp \in Responses :
        /\ Apply("refresh_access_token",
                 RefreshAccessToken(access_token, refresh_token, resp), resp, None)
        /\ UNCHANGED <<config_file, env_file, used>>

CallLoadTokens ==
    /\ Apply("load_tokens", LoadTokens(access_token, refresh_token, config_file),
             NoCall.resp, None)
    /\ UNCHANGED <<config_file, env_file, used>>

CallSaveTokens ==
    LET s == SaveTokens(access_token, refresh_token, config_file) IN
    /\ Apply("save_tokens", Outcome(s.ret, access_token, refresh_token, 0),
             NoCall.resp, None)
    /\ config_file' = s.file
    /\ UNCHANGED <<env_file, used>>

CallGetHeaders ==
    LET h == GetHeaders(access_token) IN
    /\ Apply("get_headers", Outcome(h.ret, access_token, refresh_token, 0),
             NoCall.resp, None)
    /\ used' = IF h.ret = "True" THEN used \cup {h.Authorization} ELSE used
    /\ UNCHANGED <<config_file, env_file>>

\* authorize() from the return of start_callback_server on (lines 176-185)
AuthorizeTail(at, rt, code, resp) ==
    IF ~Truthy(code) THEN Outcome("False", at, rt, 0)
    ELSE ExchangeToken(at, rt, resp)

CallAuthorize ==
    \E resp \in Responses, code \in {None} \cup Codes :
        /\ Apply("authorize", AuthorizeTail(access_token, refresh_token, code, resp),
                 resp, code)
        /\ UNCHANGED <<config_file, env_file, used>>

\* mutant: the tokens are written whatever authorize() returned
MainWritesEnvOnFailure(success) == success \in {"True", "False"}

\* main(), lines 107-112: success = authorize(); if success: write_env_tokens
MainWritesEnv(success) == success = "True"

ScriptWriteEnv ==
    /\ last.op = "authorize"
    /\ MainWritesEnv(last.ret)
    /\ Apply("write_env_tokens", Outcome("None", access_token, refresh_token, 0),
             NoCall.resp, None)
    /\ env_file' = write_env_tokens(env_file, access_token, refresh_token)
    /\ UNCHANGED <<config_file, used>>

NextClient ==
    \/ CallExchangeToken
    \/ CallRefreshAccessToken
    \/ CallLoadTokens
    \/ CallSaveTokens
    \/ CallGetHeaders
    \/ CallAuthorize
    \/ ScriptWriteEnv

SpecClient == InitClient /\ [][NextClient]_vars

-----------------------------------------------------------------------------
(* SpecFlow: serialized authorize() calls in one process.  Each call       *)
(* resets the class attribute, binds a listener, starts its thread, joins  *)
(* it with a timeout, reads the class attribute and exchanges the code.    *)
(* A thread that outlives its join keeps running (daemon thread).          *)

\* the ports the callers of the repository listen on
Ports == {"38000", "8000"}

Flow == Len(servers)

\* the listener thread of flow f has not finished
Alive(f) == servers[f].st \in {"loop", "accept"}

\* the listening socket of flow f exists: until the thread has finished and
\* start_callback_server has returned, the HTTPServer object is referenced
SocketOpen(f) ==
    \/ Alive(f)
    \/ servers[f].st = "done" /\ f = Flow /\ pc \in {"join", "read"}

PortHeld(p) == \E f \in 1..Flow : SocketOpen(f) /\ servers[f].port = p

NewServer(st, port, ret) ==
    [st |-> st, port |-> port, timed_out |-> FALSE, got |-> None, ret |-> ret,
     joined |-> FALSE, code_sent |-> FALSE,
     alone |-> \A g \in 1..Flow : ~Alive(g),
     access0 |-> access_token, refresh0 |-> refresh_token, calls0 |-> http_calls]

\* authorize() up to server_thread.start(): line 124 resets the class
\* attribute, line 127 binds (OSError if the port is taken), 137-139 start
StartFlow ==
    \E port \in Ports :
        /\ pc = "idle"
        /\ Flow < MaxFlows
        /\ authorization_code' = None
        /\ IF PortHeld(port)
           THEN /\ servers' = Append(servers, NewServer("nobind", port, "Raised"))
                /\ pc' = "main"
           ELSE /\ servers' = Append(servers, NewServer("loop", port, "None"))
                /\ pc' = "join"
        /\ UNCHANGED <<reqs, exchanged, nhandled, clientVars, gwVars, fnVars>>

\* the browser (or anything else) connects to a listening socket
BrowserSend ==
    \E f \in 1..Flow, code \in {None} \cup Codes :
        /\ SocketOpen(f)
        /\ Len(reqs) < MaxRequests
        /\ reqs' = Append(reqs, [sock |-> f, code |-> code, resp |-> 0, order |-> 0,
                                 in_window |-> (f = Flow /\ pc = "join"),
                                 handled_in_window |-> FALSE])
        /\ servers' = [servers EXCEPT ![f].code_sent =
                          @ \/ (code # None /\ ~servers[f].joined)]
        /\ UNCHANGED <<authorization_code, pc, exchanged, nhandled, clientVars, gwVars, fnVars>>

\* mutant: the loop does not stop on a captured code
ServerLoopForever ==
    \E f \in 1..Flow :
        /\ servers[f].st = "loop"
        /\ servers' = [servers EXCEPT ![f].st = "accept"]
        /\ UNCHANGED <<authorization_code, reqs, pc, exchanged, nhandled, clientVars, gwVars, fnVars>>

\* run_server, line 134: the loop condition
ServerLoop ==
    \E f \in 1..Flow :
        /\ servers[f].st = "loop"
        /\ servers' = [servers EXCEPT ![f].st =
                          IF authorization_code = None THEN "accept" ELSE "done"]
        /\ UNCHANGED <<authorization_code, reqs, pc, exchanged, nhandled, clientVars, gwVars, fnVars>>

\* mutant: the first value of `code` is stored, "" when there is none
do_GET_StoresMissing(code) ==
    IF code # None
    THEN [authorization_code |-> code, status |-> 200]
    ELSE [authorization_code |-> Empty, status |-> 400]

\* do_GET on a request whose query has code (None: no code parameter)
do_GET(code) ==
    IF code # None
    THEN [authorization_code |-> code, status |-> 200]
    ELSE [authorization_code |-> authorization_code, status |-> 400]

\* run_server, line 135: handle_request() serves one pending connection
ServerHandle ==
    \E f \in 1..Flow, i \in 1..Len(reqs) :
        /\ servers[f].st = "accept"
        /\ reqs[i].sock = f
        /\ reqs[i].resp = 0
        /\ LET h == do_GET(reqs[i].code) IN
           /\ authorization_code' = h.authorization_code
           /\ reqs' = [reqs EXCEPT ![i].resp = h.status, ![i].order = nhandled + 1,
                                   ![i].handled_in_window = (f = Flow /\ pc = "join")]
        /\ nhandled' = nhandled + 1
        /\ servers' = [servers EXCEPT ![f].st = "loop"]
        /\ UNCHANGED <<pc, exchanged, clientVars, gwVars, fnVars>>

\* line 142: join returns, because the thread finished or the timeout elapsed
JoinReturn ==
    /\ pc = "join"
    /\ servers' = [servers EXCEPT ![Flow].timed_out = Alive(Flow),
                                  ![Flow].joined = TRUE]
    /\ pc' = "read"
    /\ UNCHANGED <<authorization_code, reqs, exchanged, nhandled, clientVars, gwVars, fnVars>>

\* lines 144 and 178-180: the class attribute is read and returned;
\* authorize() returns False without a code
ReadCode ==
    /\ pc = "read"
    /\ servers' = [servers EXCEPT ![Flow].got = authorization_code,
                                  ![Flow].ret = IF ~Truthy(authorization_code)
                                                THEN "False" ELSE "None"]
    /\ pc' = IF ~Truthy(authorization_code) THEN "main" ELSE "exchange"
    /\ UNCHANGED <<authorization_code, reqs, exchanged, nhandled, clientVars, gwVars, fnVars>>

\* the token endpoint's answers tried in SpecFlow: an object with or without
\* the tokens, an error status, a transport failure
FlowResponses ==
    {r \in Responses :
        /\ r.access_token \in {None, "at1"}
        /\ r.refresh_token = (IF r.access_token = None THEN None ELSE "rt1")
        /\ r.refreshToken = None
        /\ r.body = (IF r.status = "2xx" THEN "dict" ELSE "garbage")}

\* line 185: return self.exchange_token(authorization_code)
FlowExchange ==
    \E resp \in FlowResponses :
        /\ pc = "exchange"
        /\ LET o == AuthorizeTail(access_token, refresh_token, servers[Flow].got, resp) IN
           /\ access_token' = o.access_token
           /\ refresh_token' = o.refresh_token
           /\ http_calls' = http_calls + o.http
           /\ servers' = [servers EXCEPT ![Flow].ret = o.ret]
        /\ exchanged' = exchanged \cup {<<Flow, servers[Flow].got>>}
        /\ pc' = "main"
        /\ UNCHANGED <<authorization_code, reqs, nhandled, config_file, env_file,
                       last, issued, used, nops, gwVars, fnVars>>

\* main(), lines 107-113, after authorize() returned (or raised)
MainAfterAuthorize ==
    /\ pc = "main"
    /\ env_file' = IF MainWritesEnv(servers[Flow].ret)
                   THEN write_env_tokens(env_file, access_token, refresh_token)
                   ELSE env_file
    /\ pc' = "idle"
    /\ UNCHANGED <<authorization_code, servers, reqs, exchanged, nhandled,
                   access_token, refresh_token, config_file, http_calls, last,
                   issued, used, nops, gwVars, fnVars>>

InitFlow == ClientFresh /\ env_file = NoEnv /\ FlowIdle /\ GWIdle /\ FnIdle

NextFlow ==
    \/ StartFlow
    \/ BrowserSend
    \/ ServerLoop
    \/ ServerHandle
    \/ JoinReturn
    \/ ReadCode
    \/ FlowExchange
    \/ MainAfterAuthorize

SpecFlow == InitFlow /\ [][NextFlow]_vars

-----------------------------------------------------------------------------
(* SpecGW: ApiKeyAuthMiddleware.  A path is a sequence of atoms, each atom *)
(* a run of characters starting with "/"; a prefix test or a replacement   *)
(* on atoms is the one on characters for the paths tried here.             *)

PathAtoms == {"/mcp", "/sse", "/health", "/U+4E2D"}

\* the atom standing for a segment written in characters above U+00FF
NonLatin1 == {"/U+4E2D"}

\* the request target as the server received it (percent-encoded)
RawAtom(a) == IF a = "/U+4E2D" THEN "/%E4%B8%AD" ELSE a
RawPath(path) == [i \in 1..Len(path) |-> RawAtom(path[i])]

\* str.lower() on the header names tried
Lower(name) ==
    CASE name = "X-API-Key"     -> "x-api-key"
      [] name = "Authorization" -> "authorization"
      [] OTHER                  -> name

\* ApiKeyAuthMiddleware.__init__; env is os.environ's MCP_API_KEY (None: unset);
\* a rewrite_to of None or "" is the empty sequence
MakeConfig(header_name, expected_key, env, sse_path, rewrite_to) ==
    [header_name  |-> Lower(header_name),
     expected_key |-> PyOr(expected_key, IF env = None THEN "123" ELSE env),
     sse_path     |-> sse_path,
     rewrite_to   |-> rewrite_to]

Configs ==
    {MakeConfig(h, k, e, <<"/mcp">>, r) :
        h \in {"x-api-key", "X-API-Key"}, k \in {None, "secret"},
        e \in {None, "secret"}, r \in {<<>>, <<"/sse">>}}

\* str.startswith
StartsWith(path, prefix) ==
    /\ Len(path) >= Len(prefix)
    /\ SubSeq(path, 1, Len(prefix)) = prefix

\* mutant: only the external path is inspected
ProtectedExternalOnly(cfg, path) == StartsWith(path, cfg.sse_path)

\* line 27: the paths that are checked
Protected(cfg, path) ==
    \/ StartsWith(path, cfg.sse_path)
    \/ cfg.rewrite_to # <<>> /\ StartsWith(path, cfg.rewrite_to)

\* lines 29-30: the dict built from the header list (a later header of the
\* same lowered name replaces an earlier one), then .get(header_name)
HeaderValue(headers, name) ==
    LET hits == {i \in 1..Len(headers) : Lower(headers[i][1]) = name} IN
    IF hits = {} THEN None
    ELSE headers[CHOOSE i \in hits : \A j \in hits : j <= i][2]

\* line 31
KeyRejected(cfg, headers) ==
    HeaderValue(headers, cfg.header_name) # cfg.expected_key

RECURSIVE FirstAt(_, _, _)
\* index of the first occurrence of old in path at or after i, 0 if none
FirstAt(path, old, i) ==
    IF i + Len(old) - 1 > Len(path) THEN 0
    ELSE IF SubSeq(path, i, i + Len(old) - 1) = old THEN i
    ELSE FirstAt(path, old, i + 1)

\* path.replace(old, new, 1)
ReplaceFirst(path, old, new) ==
    LET i == FirstAt(path, old, 1) IN
    IF i = 0 THEN path
    ELSE SubSeq(path, 1, i - 1) \o new \o SubSeq(path, i + Len(old), Len(path))

\* new_path.encode("latin1") is possible
Latin1Encodable(path) == \A i \in 1..Len(path) : path[i] \notin NonLatin1

Unauthorized401 ==
    <<[type |-> "http.response.start", status |-> 401],
      [type |-> "http.response.body",
       body |-> "Unauthorized: missing or invalid x-api-key"]>>

Result(sent, calls, raised) == [sent |-> sent, app_calls |-> calls, raised |-> raised]

\* mutant: a path under the external path is rewritten, configured or not
RewriteAppliesUnconfigured(cfg, path) == StartsWith(path, cfg.sse_path)

\* line 46: the path is rewritten
RewriteApplies(cfg, path) ==
    cfg.rewrite_to # <<>> /\ StartsWith(path, cfg.sse_path)

\* mutant: a non-HTTP scope under a protected path is checked as well
MiddlewareChecksAllTypes(cfg, scope) ==
    IF Protected(cfg, scope.path) /\ KeyRejected(cfg, scope.headers)
    THEN Result(Unauthorized401, <<>>, "none")
    ELSE Result(<<>>, <<scope>>, "none")

\* ApiKeyAuthMiddleware.__call__: the messages sent, the scopes the wrapped
\* app was called with, the exception raised ("none" if none)
Middleware(cfg, scope) ==
    IF scope.type = "http" /\ Protected(cfg, scope.path)
    THEN IF KeyRejected(cfg, scope.headers)
         THEN Result(Unauthorized401, <<>>, "none")
         ELSE IF RewriteApplies(cfg, scope.path)
              THEN LET new_path == ReplaceFirst(scope.path, cfg.sse_path,
                                                cfg.rewrite_to) IN
                   IF Latin1Encodable(new_path)
                   THEN Result(<<>>, <<[scope EXCEPT !.path = new_path,
                                                     !.raw_path = new_path]>>,
                               "none")
                   ELSE Result(<<>>, <<>>, "UnicodeEncodeError")
              ELSE Result(<<>>, <<scope>>, "none")
    ELSE Result(<<>>, <<scope>>, "none")

RECURSIVE SeqsUpTo(_, _)
\* the sequences over S of length at most n
SeqsUpTo(S, n) ==
    IF n = 0 THEN {<<>>}
    ELSE LET shorter == SeqsUpTo(S, n - 1) IN
         shorter \cup {Append(q, x) : q \in shorter, x \in S}

HeaderNames  == {"x-api-key", "X-API-Key", "other"}
HeaderValues == {"secret", "123", "wrong"}

Scopes ==
    {[type |-> t, path |-> p, raw_path |-> RawPath(p), headers |-> h,
      method |-> "GET"] :
        t \in {"http", "websocket"},
        p \in SeqsUpTo(PathAtoms, MaxPathLen),
        h \in SeqsUpTo(HeaderNames \X HeaderValues, MaxHeaders)}

\* the middleware has not run on the request yet
Pending == Result(<<>>, <<>>, "pending")

\* a configured middleware and a request arriving at it
InitGW ==
    /\ ClientFresh /\ env_file = NoEnv
    /\ FlowIdle
    /\ FnIdle
    /\ gw_cfg \in Configs
    /\ gw_scope \in Scopes
    /\ gw_out = Pending

\* the request goes through the middleware
GWCall ==
    /\ gw_out = Pending
    /\ gw_out' = Middleware(gw_cfg, gw_scope)
    /\ UNCHANGED <<gw_cfg, gw_scope, clientVars, flowVars, fnVars>>

NextGW == GWCall

SpecGW == InitGW /\ [][NextGW]_vars

-----------------------------------------------------------------------------
(* http_server.py: POST /mcp.  A header value, like the secret, is a       *)
(* sequence of pieces of text; "Bearer " and " " are pieces of their own,  *)
(* so that startswith, replace and strip are computed on the pieces.       *)

Bearer == "Bearer "
Blank  == " "

MaxMcpHeaders == 2

\* the environment variable MCP_API_KEY when the module is loaded
McpEnvs ==
    {[set |-> FALSE, value |-> <<>>],
     [set |-> TRUE,  value |-> <<>>],
     [set |-> TRUE,  value |-> <<"s3cret">>]}

\* lines 75-78: API_KEY
API_KEY(env) ==
    IF ~env.set \/ env.value = <<>> THEN <<"123">> ELSE env.value

\* request.headers.get(name, ""): Starlette compares header names without
\* regard to case and returns the first header of that name
HeadersGet(headers, name) ==
    LET hits == {i \in 1..Len(headers) : Lower(headers[i][1]) = Lower(name)} IN
    IF hits = {} THEN <<>>
    ELSE headers[CHOOSE i \in hits : \A j \in hits : i <= j][2]

RECURSIVE ReplaceAll(_, _)
\* value.replace(piece, "")
ReplaceAll(value, piece) ==
    IF value = <<>> THEN <<>>
    ELSE IF Head(value) = piece THEN ReplaceAll(Tail(value), piece)
    ELSE <<Head(value)>> \o ReplaceAll(Tail(value), piece)

RECURSIVE LStrip(_)
LStrip(value) ==
    IF value # <<>> /\ Head(value) = Blank THEN LStrip(Tail(value)) ELSE value

RECURSIVE RStrip(_)
RStrip(value) ==
    IF value # <<>> /\ value[Len(value)] = Blank
    THEN RStrip(SubSeq(value, 1, Len(value) - 1)) ELSE value

\* str.strip()
Strip(value) == RStrip(LStrip(value))

\* lines 98-109: the token taken from the headers (<<>>: None or "")
Token(headers) ==
    LET auth_header      == HeadersGet(headers, "Authorization")
        api_key_header   == HeadersGet(headers, "X-API-Key")
        x_api_key_header == HeadersGet(headers, "x-api-key")
    IN  IF auth_header # <<>> /\ Head(auth_header) = Bearer
        THEN Strip(ReplaceAll(auth_header, Bearer))
        ELSE IF api_key_header # <<>> THEN Strip(api_key_header)
        ELSE IF x_api_key_header # <<>> THEN Strip(x_api_key_header)
        ELSE <<>>

\* verify_api_key(request)
verify_api_key(env, headers) ==
    IF API_KEY(env) = <<>> THEN TRUE
    ELSE IF Token(headers) = <<>> THEN FALSE
    ELSE Token(headers) = API_KEY(env)

McpResponse(status, code, dispatched) ==
    [status |-> status, code |-> code, dispatched |-> dispatched]

\* mcp_endpoint(request): the HTTP status, the JSON-RPC error code (0: none)
\* and what was dispatched
mcp_endpoint(env, headers, body) ==
    IF API_KEY(env) # <<>> /\ ~verify_api_key(env, headers)
    THEN McpResponse(401, -32001, "none")
    ELSE CASE body = "malformed"   -> McpResponse(200, -32603, "none")
           [] body = "not_jsonrpc" -> McpResponse(200, 0, "none")
           [] body = "tools/list"  -> McpResponse(200, 0, "get_tool_definitions")
           [] body = "tools/call"  -> McpResponse(200, 0, "call_tool")
           [] body = "initialize"  -> McpResponse(200, 0, "initialize")
           [] OTHER                -> McpResponse(200, -32601, "none")

McpBodies ==
    {"tools/list", "tools/call", "initialize", "unknown/method", "not_jsonrpc",
     "malformed"}

McpHeaderNames == {"Authorization", "X-API-Key", "x-api-key"}

McpHeaderValues ==
    {<<>>, <<"s3cret">>, <<"123">>, <<"bad">>,
     <<Bearer, "s3cret">>, <<Bearer, "bad">>, <<Bearer>>,
     <<Bearer, Blank, "s3cret">>, <<Bearer, Bearer, "s3cret">>,
     <<"Basic ", "s3cret">>}

\* the server loaded under some environment and a POST /mcp arriving
InitMcp ==
    /\ ClientFresh /\ env_file = NoEnv
    /\ FlowIdle
    /\ GWIdle
    /\ fn = "mcp_endpoint"
    /\ fn_in \in [env     : McpEnvs,
                  headers : SeqsUpTo(McpHeaderNames \X McpHeaderValues,
                                     MaxMcpHeaders),
                  body    : McpBodies]
    /\ fn_out = <<>>

\* the endpoint answers the request
McpPost ==
    /\ fn = "mcp_endpoint"
    /\ fn_out = <<>>
    /\ fn_out' = <<mcp_endpoint(fn_in.env, fn_in.headers, fn_in.body)>>
    /\ UNCHANGED <<fn, fn_in, clientVars, flowVars, gwVars>>

NextMcp == McpPost

SpecMcp == InitMcp /\ [][NextMcp]_vars

-----------------------------------------------------------------------------
(* write_env_tokens on any .env, applied twice with the same tokens.       *)

MaxEnvLen == 4     \* atoms in the initial .env content

EnvAtoms == {NL, CRLF, FF, AccessKey, RefreshKey, "APP=1", "old"}

\* a token is a str without line breaks; the refresh token may be None
EnvAccessTokens  == {Empty, "at1"}
EnvRefreshTokens == {None, Empty, "rt1"}

InitEnv ==
    /\ ClientFresh /\ env_file = NoEnv
    /\ FlowIdle
    /\ GWIdle
    /\ fn = "write_env_tokens"
    /\ fn_in \in [file          : {NoEnv} \cup
                                  {EnvFile(c) : c \in SeqsUpTo(EnvAtoms, MaxEnvLen)},
                  access_token  : EnvAccessTokens,
                  refresh_token : EnvRefreshTokens]
    /\ fn_out = <<>>

\* write_env_tokens rewrites the file as it is now
EnvWrite ==
    /\ fn = "write_env_tokens"
    /\ Len(fn_out) < 2
    /\ fn_out' = Append(fn_out,
                        write_env_tokens(IF fn_out = <<>> THEN fn_in.file
                                         ELSE fn_out[Len(fn_out)],
                                         fn_in.access_token, fn_in.refresh_token))
    /\ UNCHANGED <<fn, fn_in, clientVars, flowVars, gwVars>>

NextEnv == EnvWrite

SpecEnv == InitEnv /\ [][NextEnv]_vars

-----------------------------------------------------------------------------
(* load_tokens on any oauth_config.json.  The file is absent, or holds     *)
(* text that is not JSON ("garbage"), a JSON value that is not an object   *)
(* ("list"), or an object ("dict") in which each key is absent or has a    *)
(* value (None: null).                                                     *)

Absent == "Absent"

ClientFields ==
    {"client_id", "client_secret", "redirect_uri", "access_token", "refresh_token"}

\* config.get(key, default)
ConfigGet(config, key, default) ==
    IF config[key] = Absent THEN default ELSE config[key]

\* load_tokens(config_path) on a client whose fields are client: the value
\* returned and the fields afterwards
load_tokens(client, file) ==
    IF ~file.exists \/ file.kind # "dict"
    THEN [ret |-> "False", client |-> client]
    ELSE LET loaded ==
                 [client_id     |-> ConfigGet(file, "client_id", client.client_id),
                  client_secret |-> ConfigGet(file, "client_secret", client.client_secret),
                  redirect_uri  |-> ConfigGet(file, "redirect_uri", client.redirect_uri),
                  access_token  |-> ConfigGet(file, "access_token", None),
                  refresh_token |-> ConfigGet(file, "refresh_token", None)]
         IN  [ret    |-> IF Truthy(loaded.access_token) THEN "True" ELSE "False",
              client |-> loaded]

\* DidaOAuthClient(...) whose session holds, or does not hold, tokens
LoadClients ==
    [client_id : {"id0"}, client_secret : {"secret0"}, redirect_uri : {"uri0"},
     access_token : {None, "at1"}, refresh_token : {None, "rt1"}]

ConfigFiles ==
    [exists : {TRUE}, kind : {"dict"},
     client_id : {Absent, "id1"}, client_secret : {Absent, "secret1"},
     redirect_uri : {Absent, "uri1"},
     access_token : {Absent, None, Empty, "at2"},
     refresh_token : {Absent, None, "rt2"}]
    \cup
    {[exists |-> e, kind |-> k, client_id |-> Absent, client_secret |-> Absent,
      redirect_uri |-> Absent, access_token |-> Absent, refresh_token |-> Absent] :
        <<e, k>> \in {<<FALSE, "none">>, <<TRUE, "garbage">>, <<TRUE, "list">>}}

InitLoad ==
    /\ ClientFresh /\ env_file = NoEnv
    /\ FlowIdle
    /\ GWIdle
    /\ fn = "load_tokens"
    /\ fn_in \in [client : LoadClients, file : ConfigFiles]
    /\ fn_out = <<>>

\* the client loads the file
LoadCall ==
    /\ fn = "load_tokens"
    /\ fn_out = <<>>
    /\ fn_out' = <<load_tokens(fn_in.client, fn_in.file)>>
    /\ UNCHANGED <<fn, fn_in, clientVars, flowVars, gwVars>>

NextLoad == LoadCall

SpecLoad == InitLoad /\ [][NextLoad]_vars

-----------------------------------------------------------------------------
(* get_authorization_url.  A URL and a parameter value are sequences of     *)
(* pieces: the characters that matter in a query string (" ", "&", "=",    *)
(* "+", "%", "#", "?"), a percent escape such as "%26", or a run of other  *)
(* characters ("x", a parameter name, the endpoint).                       *)

MaxScopeLen == 2     \* pieces in the scope argument

AUTH_URL == "https://dida365.com/oauth/authorize"

UrlAtoms == {"x", " ", "&", "=", "+", "%", "#"}

\* lines 102-108: params, in the order of the dict
AuthParams(client_id, scope, redirect_uri) ==
    << <<"client_id", client_id>>,
       <<"scope", scope>>,
       <<"state", <<"random_state">> >>,
       <<"redirect_uri", redirect_uri>>,
       <<"response_type", <<"code">> >> >>

RECURSIVE JoinAmp(_)
\* line 110: "&".join([f"{k}={v}" for k, v in params.items()])
JoinAmp(params) ==
    IF params = <<>> THEN <<>>
    ELSE <<params[1][1], "=">> \o params[1][2] \o
         (IF Len(params) = 1 THEN <<>> ELSE <<"&">> \o JoinAmp(Tail(params)))

\* get_authorization_url(scope)
get_authorization_url(client_id, scope, redirect_uri) ==
    <<AUTH_URL, "?">> \o JoinAmp(AuthParams(client_id, scope, redirect_uri))

\* index of the first piece of text, from position i on, that is in marks;
\* Len(text) + 1 if there is none
RECURSIVE FirstOf(_, _, _)
FirstOf(text, marks, i) ==
    IF i > Len(text) \/ text[i] \in marks THEN i
    ELSE FirstOf(text, marks, i + 1)

\* urlparse(url).query: what stands after the first "?" and before "#"
UrlQuery(url) ==
    LET stop == FirstOf(url, {"#"}, 1)
        q    == FirstOf(url, {"?"}, 1)
    IN  IF q >= stop THEN <<>> ELSE SubSeq(url, q + 1, stop - 1)

\* unquote_plus on one piece
UnquotePlus(piece) ==
    CASE piece = "+"   -> " "
      [] piece = "%20" -> " "
      [] piece = "%26" -> "&"
      [] piece = "%3D" -> "="
      [] piece = "%2B" -> "+"
      [] piece = "%25" -> "%"
      [] piece = "%23" -> "#"
      [] OTHER         -> piece

\* one name=value field of a query string: its name and its decoded value
\* (a field without "=" has no value)
QueryField(field) ==
    LET eq == FirstOf(field, {"="}, 1) IN
    [name  |-> SubSeq(field, 1, eq - 1),
     has   |-> eq <= Len(field),
     value |-> [i \in 1..(Len(field) - eq) |-> UnquotePlus(field[eq + i])]]

\* parse_qs(query)[name]: the values of the fields of that name, in order
ParseQs(query, name) ==
    LET fields == SplitFrom(query, {"&"}, 1, <<>>)
        hits   == SelectSeq(fields, LAMBDA fld : QueryField(fld).has
                                                /\ QueryField(fld).name = <<name>>)
    IN  [i \in 1..Len(hits) |-> QueryField(hits[i]).value]

\* a client as the callers construct it, and a scope
InitUrl ==
    /\ ClientFresh /\ env_file = NoEnv
    /\ FlowIdle
    /\ GWIdle
    /\ fn = "get_authorization_url"
    /\ fn_in \in [client_id    : SeqsUpTo(UrlAtoms, 1) \ {<<>>},
                  scope        : SeqsUpTo(UrlAtoms, MaxScopeLen),
                  redirect_uri : SeqsUpTo(UrlAtoms, 1) \ {<<>>}]
    /\ fn_out = <<>>

\* the URL is built
UrlCall ==
    /\ fn = "get_authorization_url"
    /\ fn_out = <<>>
    /\ fn_out' = <<get_authorization_url(fn_in.client_id, fn_in.scope,
                                         fn_in.redirect_uri)>>
    /\ UNCHANGED <<fn, fn_in, clientVars, flowVars, gwVars>>

NextUrl == UrlCall

SpecUrl == InitUrl /\ [][NextUrl]_vars

-----------------------------------------------------------------------------
(* Claims *)

\* the requests the socket of flow f accepted
ReqsOf(f) == {i \in 1..Len(reqs) : reqs[i].sock = f}

\* the requests listener f answered while its caller was waiting in join
InWindow(f) == {i \in ReqsOf(f) : reqs[i].resp # 0 /\ reqs[i].handled_in_window}

C2_Timeout ==
    \A f \in 1..Flow :
        (servers[f].timed_out /\ ~servers[f].code_sent) =>
            /\ servers[f].got = None
            /\ servers[f].ret \in {"None", "False"}
            /\ \A c \in Codes : <<f, c>> \notin exchanged
            /\ f = Flow =>
                   /\ access_token = servers[f].access0
                   /\ refresh_token = servers[f].refresh0
                   /\ http_calls = servers[f].calls0

\* the access tokens held in a persisted file
PersistedAccessTokens ==
    (IF config_file.exists THEN {config_file.access_token} ELSE {})
    \cup EnvValues(env_file, AccessKey)

\* C3: every value placed in an Authorization header or written to
\* oauth_config.json or .env as the access token is a non-empty access token
\* of a 2xx exchange or refresh response.
C3_OnlyIssuedTokens ==
    /\ used \subseteq issued
    /\ PersistedAccessTokens \subseteq issued
    /\ \A t \in issued : Truthy(t)

\* C3 witness: a token was saved to the file and used in a header
C3_Witness ==
    /\ used # {}
    /\ config_file.exists

\* C4 as stated: a 2xx JSON object without access_token makes exchange_token
\* return False and leaves both token fields of a fresh session unset.
C4_ExchangeRejectsTokens ==
    (/\ last.op = "exchange_token"
     /\ last.resp.status = "2xx" /\ last.resp.body = "dict"
     /\ last.resp.access_token = None
     /\ last.pre_access = None /\ last.pre_refresh = None)
    => /\ last.ret = "False"
       /\ access_token = None
       /\ refresh_token = None

\* C8: refresh_access_token without a stored refresh token returns False,
\* sends nothing to the token endpoint and leaves both token fields alone.
C8_RefreshWithoutToken ==
    (last.op = "refresh_access_token" /\ ~Truthy(last.pre_refresh))
    => /\ last.ret = "False"
       /\ last.http = 0
       /\ access_token = last.pre_access
       /\ refresh_token = last.pre_refresh

\* C8 witness: refresh called on a session holding an access token but no
\* refresh token, the endpoint being ready to answer 2xx
C8_Witness ==
    /\ last.op = "refresh_access_token"
    /\ last.pre_refresh = None
    /\ last.pre_access \in AccessTokens
    /\ last.resp.status = "2xx" /\ last.resp.access_token \in AccessTokens
    /\ last.ret = "False"

\* C9: on a 2xx response exchange_token returns True exactly when the body is
\* an object with a non-empty access_token, whatever it says about refresh
\* tokens, and then the session's access_token is the body's.
C9_ExchangeTrueIffAccessToken ==
    (last.op = "exchange_token" /\ last.resp.status = "2xx")
    => /\ last.ret = "True" <=>
              (last.resp.body = "dict" /\ Truthy(last.resp.access_token))
       /\ last.ret = "True" => access_token = last.resp.access_token

\* C9 witness: a successful exchange whose body has no refresh token at all
C9_Witness ==
    /\ last.op = "exchange_token"
    /\ last.ret = "True"
    /\ last.resp.refresh_token = None /\ last.resp.refreshToken = None
    /\ access_token \in AccessTokens

\* C10: exchange_token and refresh_access_token never raise; an error status,
\* an unparseable body and a transport failure each give False.
C10_NeverRaises ==
    last.op \in {"exchange_token", "refresh_access_token"}
    => /\ last.ret \in {"True", "False"}
       /\ (last.http = 1 /\ (\/ last.resp.status \in {"non2xx", "transport"}
                             \/ last.resp.body = "garbage"))
              => last.ret = "False"

\* C10 witness: the exchange met a transport failure and returned False
C10_Witness ==
    /\ last.op = "exchange_token"
    /\ last.resp.status = "transport"
    /\ last.ret = "False"

\* the request's path is under a protected prefix, as the claims word it
UnderExternal == StartsWith(gw_scope.path, gw_cfg.sse_path)
UnderInternal == gw_cfg.rewrite_to # <<>> /\ StartsWith(gw_scope.path, gw_cfg.rewrite_to)

\* the value the request presents in the configured header
Presented == HeaderValue(gw_scope.headers, gw_cfg.header_name)

\* C5: an HTTP request under the external path (or the configured internal
\* path) whose key is missing or wrong is answered 401 "Unauthorized..." and
\* the wrapped app is not called.
C5_Rejects ==
    (/\ gw_out # Pending
     /\ gw_scope.type = "http"
     /\ UnderExternal \/ UnderInternal
     /\ Presented # gw_cfg.expected_key)
    => /\ gw_out.sent = Unauthorized401
       /\ gw_out.app_calls = <<>>
       /\ gw_out.raised = "none"

\* C5 witness: a request under the internal path without the header, rejected
C5_Witness ==
    /\ gw_out.sent = Unauthorized401
    /\ gw_scope.type = "http"
    /\ UnderInternal /\ ~UnderExternal
    /\ Presented = None

\* C6 as stated: with the right key, a rewrite configured and a path under
\* the external path, the app is called once, path and raw_path being the
\* path with its leading external prefix replaced by the internal path, the
\* rest of the scope unchanged.
C6_Rewrites ==
    (/\ gw_out # Pending
     /\ gw_scope.type = "http"
     /\ UnderExternal
     /\ gw_cfg.rewrite_to # <<>>
     /\ Presented = gw_cfg.expected_key)
    => LET rewritten == gw_cfg.rewrite_to \o
                        SubSeq(gw_scope.path, Len(gw_cfg.sse_path) + 1,
                               Len(gw_scope.path))
       IN gw_out.app_calls =
              <<[gw_scope EXCEPT !.path = rewritten, !.raw_path = rewritten]>>

\* C7: a request under neither prefix, and any non-HTTP scope, reaches the
\* wrapped app with the scope it came with, whatever its headers, and nothing
\* is sent by the middleware.
C7_Passthrough ==
    (/\ gw_out # Pending
     /\ \/ gw_scope.type # "http"
        \/ ~UnderExternal /\ ~UnderInternal)
    => /\ gw_out.app_calls = <<gw_scope>>
       /\ gw_out.sent = <<>>
       /\ gw_out.raised = "none"

\* C7 witness: a websocket scope under the external path with a wrong key
\* went through
C7_Witness ==
    /\ gw_out.app_calls = <<gw_scope>>
    /\ gw_scope.type = "websocket"
    /\ UnderExternal
    /\ Presented = "wrong"

\* C11 as stated: no authorize() call ends with an exception, whatever
\* fails (a port that cannot be bound, a timeout, an exchange or transport
\* error).
C11_AuthorizeNeverRaises ==
    \A f \in 1..Flow : servers[f].ret # "Raised"

\* C12: a refresh that returns True has stored the response's access token,
\* and the response's refresh token if it is non-empty; otherwise the refresh
\* token is the one held before the call.
C12_RefreshKeepsRefreshToken ==
    (last.op = "refresh_access_token" /\ last.ret = "True")
    => /\ access_token = last.resp.access_token
       /\ Truthy(last.resp.refresh_token) => refresh_token = last.resp.refresh_token
       /\ ~Truthy(last.resp.refresh_token) => refresh_token = last.pre_refresh

\* C12 witness: a successful refresh whose response rotates nothing, the
\* session keeping the refresh token it had
C12_Witness ==
    /\ last.op = "refresh_access_token"
    /\ last.ret = "True"
    /\ last.resp.access_token \in AccessTokens
    /\ last.resp.refresh_token \in {None, Empty}
    /\ refresh_token \in RefreshTokens \cup AltRefresh

\* the requests answered in this step
Answered == {i \in 1..Len(reqs) : reqs[i].resp = 0 /\ reqs'[i].resp # 0}

\* C13: a request without code is answered 400, leaves the captured value as
\* it is and its listener in the accept loop; a request with a code handled by
\* a listening thread is answered 200 and captured.  While the caller waits
\* and no other listener thread runs, a listener that has only answered 400
\* so far is still listening.
C13_StaysListening ==
    /\ [][\A i \in Answered :
             /\ servers[reqs[i].sock].st = "accept"
             /\ servers'[reqs[i].sock].st = "loop"
             /\ reqs[i].code = None =>
                    /\ reqs'[i].resp = 400
                    /\ authorization_code' = authorization_code
             /\ reqs[i].code # None =>
                    /\ reqs'[i].resp = 200
                    /\ authorization_code' = reqs[i].code]_vars
    /\ [](\A f \in 1..Flow :
             (/\ f = Flow /\ pc = "join" /\ servers[f].alone
              /\ \A i \in ReqsOf(f) : reqs[i].resp \in {0, 400})
             => /\ authorization_code = None
                /\ Alive(f))

\* C13 witness: the current listener answered 400 and afterwards captured a
\* code in the same window, the class attribute holding that code
C13_Witness ==
    /\ pc = "join"
    /\ \E i, j \in InWindow(Flow) :
           /\ reqs[i].resp = 400 /\ reqs[j].resp = 200
           /\ reqs[i].order < reqs[j].order
           /\ authorization_code = reqs[j].code

\* C20: a request that presents the expected key, when rewrite_to is not
\* configured or the path is under the internal path and not under the
\* external one, reaches the wrapped app once with the scope it came with;
\* the middleware sends nothing and raises nothing.
C20_ForwardsUnchanged ==
    (/\ gw_out # Pending
     /\ Presented = gw_cfg.expected_key
     /\ \/ gw_cfg.rewrite_to = <<>>
        \/ UnderInternal /\ ~UnderExternal)
    => /\ gw_out.app_calls = <<gw_scope>>
       /\ gw_out.sent = <<>>
       /\ gw_out.raised = "none"

\* C20 witness: an HTTP request under the external path with the right key,
\* no rewrite configured, went through as it came
C20_Witness ==
    /\ gw_out.app_calls = <<gw_scope>>
    /\ gw_scope.type = "http"
    /\ UnderExternal
    /\ gw_cfg.rewrite_to = <<>>
    /\ Presented = gw_cfg.expected_key

\* POST /mcp has been answered
McpAnswered == fn = "mcp_endpoint" /\ fn_out # <<>>

\* C14 as stated: with MCP_API_KEY unset, every POST /mcp request is accepted
\* whatever headers it carries.
C14_NoSecretAcceptsAll ==
    (McpAnswered /\ ~fn_in.env.set) => fn_out[1].status # 401

\* the candidate as C15 words it: the key after the leading "Bearer " of
\* Authorization, else the X-API-Key / x-api-key header, surrounding blanks
\* aside (<<>>: none)
Candidate ==
    LET auth == HeadersGet(fn_in.headers, "Authorization")
        key  == HeadersGet(fn_in.headers, "X-API-Key")
    IN  IF auth # <<>> /\ Head(auth) = Bearer THEN Strip(Tail(auth))
        ELSE Strip(key)

\* C15 as stated: with a secret configured, the request is accepted iff the
\* candidate equals the secret; otherwise the answer is 401 with JSON-RPC
\* error -32001 and nothing is dispatched.
C15_AcceptedIffCandidateIsSecret ==
    (McpAnswered /\ fn_in.env.set /\ fn_in.env.value # <<>>)
    => /\ fn_out[1].status # 401 <=> Candidate = fn_in.env.value
       /\ fn_out[1].status = 401 =>
              fn_out[1].code = -32001 /\ fn_out[1].dispatched = "none"

\* the .env files written so far by write_env_tokens
EnvWritten == IF fn = "write_env_tokens" THEN {fn_out[i] : i \in 1..Len(fn_out)} ELSE {}

\* the lines of a text file: what stands between its "\n" (or "\r\n")
TextLines(content) == SplitFrom(content, {NL, CRLF}, 1, <<>>)

\* the lines of a file that begin with key
KeyLines(content, key) ==
    SelectSeq(TextLines(content), LAMBDA ln : LineStartsWith(ln, key))

\* the lines of a file that begin with neither key
OtherLines(content) ==
    SelectSeq(TextLines(content),
              LAMBDA ln : ~LineStartsWith(ln, AccessKey) /\ ~LineStartsWith(ln, RefreshKey))

\* C16: write_env_tokens applied a second time with the same tokens leaves
\* the file as the first application wrote it.
C16_Idempotent ==
    (fn = "write_env_tokens" /\ Len(fn_out) = 2) => fn_out[2] = fn_out[1]

\* C16 witness: an existing file that the first application changed, written
\* twice
C16_Witness ==
    /\ fn = "write_env_tokens" /\ Len(fn_out) = 2
    /\ fn_in.file.exists
    /\ KeyLines(fn_in.file.content, RefreshKey) # <<>>
    /\ OtherLines(fn_in.file.content) # <<>>
    /\ fn_out[1] # fn_in.file

\* C17: a file written by write_env_tokens has exactly one line beginning
\* with DIDA_ACCESS_TOKEN= and exactly one beginning with
\* DIDA_REFRESH_TOKEN=, holding the tokens given; with a refresh token of
\* None the refresh line is there with an empty value.
C17_OneLinePerKey ==
    \A file \in EnvWritten :
        /\ KeyLines(file.content, AccessKey) =
               << <<AccessKey>> \o Atoms(fn_in.access_token) >>
        /\ KeyLines(file.content, RefreshKey) =
               << <<RefreshKey>> \o Atoms(PyOr(fn_in.refresh_token, Empty)) >>

\* C17 witness: a file that had two lines for the access token, written with
\* a refresh token of None
C17_Witness ==
    /\ fn = "write_env_tokens" /\ Len(fn_out) = 1
    /\ fn_in.file.exists
    /\ Len(KeyLines(fn_in.file.content, AccessKey)) = 2
    /\ fn_in.refresh_token = None
    /\ KeyLines(fn_out[1].content, RefreshKey) = << <<RefreshKey>> >>

\* C18 as stated: the lines of the file that begin with neither key are in
\* the rewritten file as they were and in the same order, and the rewritten
\* file ends with a single newline.
C18_OtherLinesPreserved ==
    (fn = "write_env_tokens" /\ Len(fn_out) >= 1)
    => LET out == fn_out[1].content IN
       /\ OtherLines(out) =
              (IF fn_in.file.exists THEN OtherLines(fn_in.file.content) ELSE <<>>)
       /\ Len(out) >= 2
       /\ out[Len(out)] = NL
       /\ out[Len(out) - 1] \notin {NL, CRLF}

\* C19 as stated: load_tokens leaves each of the five client fields at its
\* prior value when the file has no such key, and returns False when the
\* file holds no access token.
C19_AbsentKeysKeepFields ==
    (fn = "load_tokens" /\ fn_out # <<>>)
    => /\ \A k \in ClientFields :
              (~fn_in.file.exists \/ fn_in.file[k] = Absent)
              => fn_out[1].client[k] = fn_in.client[k]
       /\ (~fn_in.file.exists \/ ~Truthy(ConfigGet(fn_in.file, "access_token", None)))
              => fn_out[1].ret = "False"

\* C23 as stated: whenever refresh_access_token returned True the session's
\* access token is non-empty (a 2xx answer without access_token gives False
\* and keeps the token held before).
C23_RefreshTrueHasAccessToken ==
    (last.op = "refresh_access_token" /\ last.ret = "True")
    => Truthy(access_token)

\* C24 as stated: an exchange_token or refresh_access_token call that
\* returned False left access_token and refresh_token as they were before
\* the call.
C24_FailureKeepsTokens ==
    (last.op \in {"exchange_token", "refresh_access_token"} /\ last.ret = "False")
    => /\ access_token = last.pre_access
       /\ refresh_token = last.pre_refresh

\* C22 as stated: the code an authorize() call reads after its join was
\* carried by a request that reached that call's own listener during its
\* own window; a code that an earlier call's listener captured is never
\* what a later call reads.
C22_FlowIsolation ==
    \A f \in 1..Flow :
        Truthy(servers[f].got) =>
            \E i \in ReqsOf(f) :
                /\ reqs[i].code = servers[f].got
                /\ reqs[i].in_window

\* the number of POSTs to the token endpoint made by authorize() call f
CallsOf(f) ==
    (IF f = Flow THEN http_calls ELSE servers[f + 1].calls0) - servers[f].calls0

\* C25: an authorize() call contacts the token endpoint at most once, and
\* only with the non-empty code it read after a listener captured it (a
\* request with that code was answered 200); what authorize() returns is
\* what exchange_token returns for the endpoint's answer; and the script
\* writes .env only in the step after an authorize() that returned True.
C25_AuthorizeOrdering ==
    /\ [](\A f \in 1..Flow :
             /\ CallsOf(f) <= 1
             /\ \A c \in {None} \cup Codes :
                    <<f, c>> \in exchanged =>
                        /\ c = servers[f].got
                        /\ Truthy(c)
                        /\ \E i \in 1..Len(reqs) : reqs[i].resp = 200 /\ reqs[i].code = c
             /\ CallsOf(f) = 1 => \E c \in Codes : <<f, c>> \in exchanged
             /\ servers[f].ret = "True" => CallsOf(f) = 1)
    /\ [][/\ http_calls' # http_calls =>
                /\ pc = "exchange" /\ pc' = "main"
                /\ \E resp \in FlowResponses :
                       LET o == ExchangeToken(access_token, refresh_token, resp) IN
                       /\ servers'[Flow].ret = o.ret
                       /\ access_token' = o.access_token
                       /\ refresh_token' = o.refresh_token
          /\ env_file' # env_file =>
                /\ pc = "main"
                /\ servers[Flow].ret = "True"
                /\ env_file' = write_env_tokens(env_file, access_token, refresh_token)
         ]_vars

\* C25 witness: an authorize() call whose listener captured a code in its
\* window, exchanged it once, returned True, after which .env was written
C25_Witness ==
    /\ pc = "idle" /\ Flow >= 1
    /\ servers[Flow].ret = "True"
    /\ CallsOf(Flow) = 1
    /\ <<Flow, servers[Flow].got>> \in exchanged
    /\ \E i \in InWindow(Flow) : reqs[i].resp = 200 /\ reqs[i].code = servers[Flow].got
    /\ EnvValues(env_file, AccessKey) = {access_token}

\* the pieces that may stand in a percent-encoded parameter value
EncodedPieces == {"x", "random_state", "code", "%20", "%26", "%3D", "%2B", "%25", "%23"}

\* C21 as stated: the query string of the URL parses back to client_id,
\* scope and redirect_uri equal to the inputs, with state and
\* response_type=code, and it consists of five name=value fields whose
\* values are percent-encoded.
C21_UrlRoundTrip ==
    (fn = "get_authorization_url" /\ fn_out # <<>>)
    => LET url    == fn_out[1]
           query  == UrlQuery(url)
           fields == SplitFrom(SubSeq(url, 3, Len(url)), {"&"}, 1, <<>>)
       IN  /\ ParseQs(query, "client_id") = <<fn_in.client_id>>
           /\ ParseQs(query, "scope") = <<fn_in.scope>>
           /\ ParseQs(query, "redirect_uri") = <<fn_in.redirect_uri>>
           /\ ParseQs(query, "state") = << <<"random_state">> >>
           /\ ParseQs(query, "response_type") = << <<"code">> >>
           /\ Len(fields) = 5
           /\ \A i \in 1..Len(fields) :
                  /\ Len(fields[i]) >= 2 /\ fields[i][2] = "="
                  /\ \A j \in 3..Len(fields[i]) : fields[i][j] \in EncodedPieces

=============================================================================
